---- MODULE Spec2Model ----
(***************************************************************************)
(* A model of the Color value type (latest revision: channels are numbers  *)
(* in [0,1]) and of the calls a client makes on it.                        *)
(*                                                                         *)
(* Numbers.  A JavaScript number is modelled as an exact fraction <<n, d>> *)
(* in lowest terms with d > 0; the three non-finite values a division by   *)
(* zero produces are <<1, 0>> (Infinity), <<-1, 0>> (-Infinity) and        *)
(* <<0, 0>> (NaN).  Arithmetic is exact: the rounding error of IEEE        *)
(* doubles is not modelled, so "equal" below means equal as real numbers.  *)
(***************************************************************************)
EXTENDS Integers, Sequences, FiniteSets, TLC

VARIABLES
    op,       \* the name of the last call
    args,     \* its arguments, in order (fromString: the characters of the
              \* string; Color.mix and Color.blur: the array of colors)
    self,     \* its receiver (a Color), or NoColor for a static call
    other,    \* its Color argument, or NoColor
    result,   \* what it returned: a Color, a boolean, a string, a record of
              \* getter values, or the error it threw
    hist      \* the earlier calls of the current call chain

vars == <<op, args, self, other, result, hist>>

----------------------------------------------------------------------------
(* Bounds of the model *)

\* channel inputs are the fractions i/Levels, from below 0 to above 1
Levels == 2
\* the longest chain of transformations c.f().g()... in SpecChain
MaxChain == 2
\* the longest array of colors given to Color.mix and Color.blur
MaxColors == 3
\* the most characters after the '#' of a string given to fromString
MaxHexDigits == 9
\* the most numbers between the parentheses of a functional form
MaxChannels == 6

----------------------------------------------------------------------------
(* JavaScript numbers *)

IntAbs(n) == IF n < 0 THEN -n ELSE n

Sign(n) == IF n < 0 THEN -1 ELSE IF n = 0 THEN 0 ELSE 1

RECURSIVE GCD(_, _)
GCD(a, b) == IF b = 0 THEN a ELSE GCD(b, a % b)

\* the number n/d in lowest terms; n/0 is Infinity, -Infinity or NaN
Num(n, d) ==
    IF d = 0 THEN <<Sign(n), 0>>
    ELSE LET g == GCD(IntAbs(n), IntAbs(d))
             s == IF d < 0 THEN -1 ELSE 1
         IN  <<(s * n) \div g, (s * d) \div g>>

Zero == <<0, 1>>
One == <<1, 1>>
NaN == <<0, 0>>
Whole(n) == <<n, 1>>

IsNaN(x) == x = NaN
IsFinite(x) == x[2] # 0

\* x + y
Plus(x, y) ==
    IF IsFinite(x) /\ IsFinite(y)
    THEN LET g == GCD(x[2], y[2])
         IN  Num(x[1] * (y[2] \div g) + y[1] * (x[2] \div g), x[2] * (y[2] \div g))
    ELSE IF IsNaN(x) \/ IsNaN(y) THEN NaN
    ELSE IF IsFinite(y) THEN x
    ELSE IF IsFinite(x) THEN y
    ELSE IF x = y THEN x ELSE NaN

\* -x
Neg(x) == <<-x[1], x[2]>>

\* x - y
Minus(x, y) == Plus(x, Neg(y))

\* x * y
Times(x, y) ==
    IF IsFinite(x) /\ IsFinite(y)
    THEN LET a == Num(x[1], y[2])
             b == Num(y[1], x[2])
         IN  <<a[1] * b[1], a[2] * b[2]>>
    ELSE Num(x[1] * y[1], 0)

\* x / y; a zero divisor gives Infinity, -Infinity or NaN, never an exception
Over(x, y) ==
    IF IsFinite(x) /\ IsFinite(y) /\ y[1] # 0
    THEN LET a == Num(x[1], y[1])
             b == Num(y[2], x[2])
         IN  <<a[1] * b[1], a[2] * b[2]>>
    ELSE LET n == Sign(x[1]) * Sign(y[2])
             d == Sign(x[2]) * Sign(y[1])
         IN  IF d = 0 /\ y[1] < 0 THEN Num(-n, 0) ELSE Num(n, d)

\* x < y (false when either is NaN)
Lt(x, y) ==
    /\ ~IsNaN(x)
    /\ ~IsNaN(y)
    /\ IF IsFinite(x) /\ IsFinite(y)
       THEN LET g == GCD(x[2], y[2])
            IN  x[1] * (y[2] \div g) < y[1] * (x[2] \div g)
       ELSE IF IsFinite(x) THEN 0 < y[1]
       ELSE IF IsFinite(y) THEN x[1] < 0
       ELSE x[1] < y[1]

\* x === y on numbers (false when either is NaN)
StrictEq(x, y) == ~IsNaN(x) /\ x = y

\* x <= y
Le(x, y) == Lt(x, y) \/ StrictEq(x, y)

\* Math.abs(x)
MathAbs(x) == <<IntAbs(x[1]), x[2]>>

\* Math.max(x, y), Math.min(x, y): NaN when either is NaN
MathMax(x, y) == IF IsNaN(x) \/ IsNaN(y) THEN NaN ELSE IF Lt(x, y) THEN y ELSE x
MathMin(x, y) == IF IsNaN(x) \/ IsNaN(y) THEN NaN ELSE IF Lt(y, x) THEN y ELSE x

\* x % y, the remainder that takes the sign of the dividend
Rem(x, y) ==
    IF ~IsFinite(x) \/ IsNaN(y) \/ y = Zero THEN NaN
    ELSE IF ~IsFinite(y) THEN x
    ELSE LET g == GCD(x[2], y[2])
             a == x[1] * (y[2] \div g)
             b == IntAbs(y[1]) * (x[2] \div g)
             r == IntAbs(a) % b
         IN  Times(Whole(IF a < 0 THEN -r ELSE r), Num(1, x[2] * (y[2] \div g)))

\* a plausible slip: the raw remainder, negative for a negative dividend
modRawRemainder(a, n) == Rem(a, n)

\* xjs.Math.mod(a, n): ((a % n) + n) % n
mod(a, n) == Rem(Plus(Rem(a, n), n), n)

\* a plausible slip: the upper limit is not applied
clampBelowOnly(min, x, max) == MathMax(min, x)

\* xjs.Math.clamp(min, x, max): Math.min(Math.max(min, x), max)
clamp(min, x, max) == MathMin(MathMax(min, x), max)

----------------------------------------------------------------------------
(* The Color object *)

NoColor == [none |-> TRUE]

IsColor(c) == "RED" \in DOMAIN c

\* argument i of a call, or its default when fewer were passed
Arg(argv, i, default) == IF Len(argv) >= i THEN argv[i] ELSE default

\* a plausible slip: the zero-argument rule is forgotten
DefaultAlphaAlwaysOne(argv) == One

\* the default of a: 1, but 0 when the constructor got no argument at all
DefaultAlpha(argv) == IF Len(argv) = 0 THEN Zero ELSE One

\* new Color(...argv): arguments after the fourth are ignored
Color(argv) ==
    LET r == Arg(argv, 1, Zero)
        g == Arg(argv, 2, Zero)
        b == Arg(argv, 3, Zero)
        a == Arg(argv, 4, DefaultAlpha(argv))
        R == clamp(Zero, r, One)
        G == clamp(Zero, g, One)
        B == clamp(Zero, b, One)
        MX == MathMax(MathMax(R, G), B)
        MN == MathMin(MathMin(R, G), B)
    IN  [RED |-> R, GREEN |-> G, BLUE |-> B, ALPHA |-> clamp(Zero, a, One),
         MAX |-> MX, MIN |-> MN, CHROMA |-> Minus(MX, MN)]

red(c) == c.RED
green(c) == c.GREEN
blue(c) == c.BLUE
alpha(c) == c.ALPHA

\* [r, g, b].indexOf(max), counted from 1; 0 when not found
IndexOfMax(c) ==
    IF StrictEq(c.RED, c.MAX) THEN 1
    ELSE IF StrictEq(c.GREEN, c.MAX) THEN 2
    ELSE IF StrictEq(c.BLUE, c.MAX) THEN 3
    ELSE 0

\* a plausible slip: the red formula takes no positive remainder
hsvHueNoWrap(c) ==
    IF StrictEq(c.CHROMA, Zero) THEN Zero
    ELSE CASE IndexOfMax(c) = 1 ->
                Times(Over(Minus(c.GREEN, c.BLUE), c.CHROMA), Whole(60))
           [] IndexOfMax(c) = 2 ->
                Times(Plus(Over(Minus(c.BLUE, c.RED), c.CHROMA), Whole(2)), Whole(60))
           [] IndexOfMax(c) = 3 ->
                Times(Plus(Over(Minus(c.RED, c.GREEN), c.CHROMA), Whole(4)), Whole(60))
           [] OTHER -> NaN

\* a plausible slip: the formula of red takes no positive remainder
hueKeyedByNoWrap(c, i) ==
    CASE i = 1 -> Times(Over(Minus(c.GREEN, c.BLUE), c.CHROMA), Whole(60))
      [] i = 2 -> Times(Plus(Over(Minus(c.BLUE, c.RED), c.CHROMA), Whole(2)), Whole(60))
      [] i = 3 -> Times(Plus(Over(Minus(c.RED, c.GREEN), c.CHROMA), Whole(4)), Whole(60))

\* the array of the three hue formulas: that of red, of green, of blue
hueKeyedBy(c, i) ==
    CASE i = 1 ->
           Times(Rem(Plus(Over(Minus(c.GREEN, c.BLUE), c.CHROMA), Whole(6)), Whole(6)), Whole(60))
      [] i = 2 -> Times(Plus(Over(Minus(c.BLUE, c.RED), c.CHROMA), Whole(2)), Whole(60))
      [] i = 3 -> Times(Plus(Over(Minus(c.RED, c.GREEN), c.CHROMA), Whole(4)), Whole(60))

hsvHue(c) ==
    IF StrictEq(c.CHROMA, Zero) THEN Zero
    ELSE IF IndexOfMax(c) = 0 THEN NaN
    ELSE hueKeyedBy(c, IndexOfMax(c))

hsvVal(c) == c.MAX

\* a plausible slip: the chroma guard is missing
hsvSatUnguarded(c) == Over(c.CHROMA, hsvVal(c))

hsvSat(c) == IF StrictEq(c.CHROMA, Zero) THEN Zero ELSE Over(c.CHROMA, hsvVal(c))

hslHue(c) == hsvHue(c)

hslLum(c) == Times(<<1, 2>>, Plus(c.MAX, c.MIN))

\* a plausible slip: the chroma is divided by the value, as for HSV
hslSatOverValue(c) ==
    IF StrictEq(c.CHROMA, Zero) THEN Zero
    ELSE Over(c.CHROMA, c.MAX)

hslSat(c) ==
    IF StrictEq(c.CHROMA, Zero) THEN Zero
    ELSE Over(c.CHROMA,
              IF Le(hslLum(c), <<1, 2>>) THEN Times(Whole(2), hslLum(c))
              ELSE Minus(Whole(2), Times(Whole(2), hslLum(c))))

hwbHue(c) == hsvHue(c)

hwbWhite(c) == c.MIN

hwbBlack(c) == Minus(One, c.MAX)

cmykBlack(c) == Minus(One, c.MAX)

cmykCyan(c) ==
    IF StrictEq(cmykBlack(c), One) THEN Zero
    ELSE Over(Minus(Minus(One, red(c)), cmykBlack(c)), Minus(One, cmykBlack(c)))

cmykMagenta(c) ==
    IF StrictEq(cmykBlack(c), One) THEN Zero
    ELSE Over(Minus(Minus(One, green(c)), cmykBlack(c)), Minus(One, cmykBlack(c)))

cmykYellow(c) ==
    IF StrictEq(cmykBlack(c), One) THEN Zero
    ELSE Over(Minus(Minus(One, blue(c)), cmykBlack(c)), Minus(One, cmykBlack(c)))

\* the rgb getter: an array of FOUR channels
rgb(c) == <<red(c), green(c), blue(c), alpha(c)>>

\* every derived getter, read once
Getters(c) ==
    [hsvHue |-> hsvHue(c), hsvSat |-> hsvSat(c), hsvVal |-> hsvVal(c),
     hslHue |-> hslHue(c), hslSat |-> hslSat(c), hslLum |-> hslLum(c),
     hwbHue |-> hwbHue(c), hwbWhite |-> hwbWhite(c), hwbBlack |-> hwbBlack(c),
     cmykCyan |-> cmykCyan(c), cmykMagenta |-> cmykMagenta(c),
     cmykYellow |-> cmykYellow(c), cmykBlack |-> cmykBlack(c)]

----------------------------------------------------------------------------
(* Static factories *)

\* a plausible slip: the triples of the second and third sectors are exchanged
SectorSwapped(hue, c, x) ==
    IF Le(Zero, hue) /\ Lt(hue, Whole(60)) THEN <<c, x, Zero>>
    ELSE IF Le(Whole(60), hue) /\ Lt(hue, Whole(120)) THEN <<Zero, c, x>>
    ELSE IF Le(Whole(120), hue) /\ Lt(hue, Whole(180)) THEN <<x, c, Zero>>
    ELSE IF Le(Whole(180), hue) /\ Lt(hue, Whole(240)) THEN <<Zero, x, c>>
    ELSE IF Le(Whole(240), hue) /\ Lt(hue, Whole(300)) THEN <<x, Zero, c>>
    ELSE IF Le(Whole(300), hue) /\ Lt(hue, Whole(360)) THEN <<c, Zero, x>>
    ELSE <<c, x, Zero>>

\* the (r, g, b) triple of the 60-degree sector hue lies in
Sector(hue, c, x) ==
    IF Le(Zero, hue) /\ Lt(hue, Whole(60)) THEN <<c, x, Zero>>
    ELSE IF Le(Whole(60), hue) /\ Lt(hue, Whole(120)) THEN <<x, c, Zero>>
    ELSE IF Le(Whole(120), hue) /\ Lt(hue, Whole(180)) THEN <<Zero, c, x>>
    ELSE IF Le(Whole(180), hue) /\ Lt(hue, Whole(240)) THEN <<Zero, x, c>>
    ELSE IF Le(Whole(240), hue) /\ Lt(hue, Whole(300)) THEN <<x, Zero, c>>
    ELSE IF Le(Whole(300), hue) /\ Lt(hue, Whole(360)) THEN <<c, Zero, x>>
    ELSE <<c, x, Zero>>

fromHSV(hue0, sat, val, a) ==
    LET hue == mod(hue0, Whole(360))
        c == Times(sat, val)
        x == Times(c, Minus(One, MathAbs(Minus(Rem(Over(hue, Whole(60)), Whole(2)), One))))
        m == Minus(val, c)
        t == Sector(hue, c, x)
    IN  Color(<<Plus(t[1], m), Plus(t[2], m), Plus(t[3], m), a>>)

fromRGB(r, g, b, a) ==
    Color(<<Over(r, Whole(255)), Over(g, Whole(255)), Over(b, Whole(255)), a>>)

fromHSL(hue0, sat, lum, a) ==
    LET hue == mod(hue0, Whole(360))
        c == Times(sat, Minus(One, MathAbs(Minus(Times(Whole(2), lum), One))))
        x == Times(c, Minus(One, MathAbs(Minus(Rem(Over(hue, Whole(60)), Whole(2)), One))))
        m == Minus(lum, Over(c, Whole(2)))
        t == Sector(hue, c, x)
    IN  Color(<<Plus(t[1], m), Plus(t[2], m), Plus(t[3], m), a>>)

\* a plausible slip: black is taken for the value, not 1 - black
fromHWBValueIsBlack(hue, white, black, a) ==
    fromHSV(hue, Minus(One, Over(white, Minus(One, black))), black, a)

fromHWB(hue, white, black, a) ==
    fromHSV(hue, Minus(One, Over(white, Minus(One, black))), Minus(One, black), a)

fromCMYK(cyan, magenta, yellow, black, a) ==
    LET ink(ch) == MathMin(Plus(Times(ch, Minus(One, black)), black), One)
    IN  Color(<<Minus(One, ink(cyan)), Minus(One, ink(magenta)), Minus(One, ink(yellow)), a>>)

----------------------------------------------------------------------------
(* Strings.  A string is a sequence of one-character strings.               *)

\* the characters of the keywords the source writes and compares with
Chars(word) ==
    CASE word = "hex" -> <<"h", "e", "x">>
      [] word = "rgb" -> <<"r", "g", "b">>
      [] word = "rgba" -> <<"r", "g", "b", "a">>
      [] word = "hsv" -> <<"h", "s", "v">>
      [] word = "hsva" -> <<"h", "s", "v", "a">>
      [] word = "hsl" -> <<"h", "s", "l">>
      [] word = "hsla" -> <<"h", "s", "l", "a">>
      [] word = "hwb" -> <<"h", "w", "b">>
      [] word = "hwba" -> <<"h", "w", "b", "a">>
      [] word = "cmyk" -> <<"c", "m", "y", "k">>
      [] word = "cmyka" -> <<"c", "m", "y", "k", "a">>
      [] word = "lab" -> <<"l", "a", "b">>
      [] word = "RGB" -> <<"R", "G", "B">>
      [] word = "NaN" -> <<"N", "a", "N">>
      [] word = "Infinity" -> <<"I", "n", "f", "i", "n", "i", "t", "y">>
      [] word = "red" -> <<"r", "e", "d">>
      [] word = "white" -> <<"w", "h", "i", "t", "e">>
      [] word = "Red" -> <<"R", "e", "d">>
      [] word = "nocolor" -> <<"n", "o", "c", "o", "l", "o", "r">>
      [] word = "constructor" -> <<"c", "o", "n", "s", "t", "r", "u", "c", "t", "o", "r">>
      [] word = "toString" -> <<"t", "o", "S", "t", "r", "i", "n", "g">>
      [] word = "valueOf" -> <<"v", "a", "l", "u", "e", "O", "f">>

\* str.includes(ch)
Includes(str, ch) == \E i \in 1..Len(str) : str[i] = ch

\* str.indexOf(ch), counted from 1; 0 when not found
IndexOf(str, ch) ==
    IF Includes(str, ch)
    THEN CHOOSE i \in 1..Len(str) : str[i] = ch /\ \A j \in 1..(i - 1) : str[j] # ch
    ELSE 0

\* str.slice(from, to) with 0 <= from: the characters from + 1 .. to that exist
Slice(str, from, to) ==
    LET last == IF to < Len(str) THEN to ELSE Len(str)
    IN  IF from < last THEN SubSeq(str, from + 1, last) ELSE <<>>

\* str.slice(0, -1)
SliceOffLast(str) == Slice(str, 0, Len(str) - 1)

\* str.split(ch)
RECURSIVE Split(_, _)
Split(str, ch) ==
    LET i == IndexOf(str, ch)
    IN  IF i = 0 THEN <<str>>
        ELSE <<Slice(str, 0, i - 1)>> \o Split(Slice(str, i, Len(str)), ch)

\* strs.join(ch)
RECURSIVE Join(_, _)
Join(strs, ch) ==
    IF Len(strs) = 0 THEN <<>>
    ELSE IF Len(strs) = 1 THEN strs[1]
    ELSE strs[1] \o <<ch>> \o Join(Tail(strs), ch)

\* str.trim(), for the blank only
RECURSIVE Trim(_)
Trim(str) ==
    IF str = <<>> THEN str
    ELSE IF str[1] = " " THEN Trim(Tail(str))
    ELSE IF str[Len(str)] = " " THEN Trim(SliceOffLast(str))
    ELSE str

\* the digits of radix 16, in order
DigitChars == <<"0", "1", "2", "3", "4", "5", "6", "7", "8", "9", "a", "b", "c", "d", "e", "f">>

\* the value of one decimal digit, or -1
DecDigit(ch) ==
    IF \E d \in 0..9 : DigitChars[d + 1] = ch
    THEN (CHOOSE d \in 0..9 : DigitChars[d + 1] = ch)
    ELSE -1

\* n.toString(radix) of a whole n >= 0
RECURSIVE IntegerToString(_, _)
IntegerToString(n, radix) ==
    IF n < radix THEN <<DigitChars[n + 1]>>
    ELSE IntegerToString(n \div radix, radix) \o <<DigitChars[(n % radix) + 1]>>

\* the decimals of t thousandths, without the zeros at the end
Decimals(t) ==
    IF t = 0 THEN <<>>
    ELSE IF t % 100 = 0 THEN <<DigitChars[(t \div 100) + 1]>>
    ELSE IF t % 10 = 0 THEN <<DigitChars[(t \div 100) + 1], DigitChars[((t \div 10) % 10) + 1]>>
    ELSE <<DigitChars[(t \div 100) + 1], DigitChars[((t \div 10) % 10) + 1], DigitChars[(t % 10) + 1]>>

\* x.toString(radix) of a number with at most three decimals (toString prints
\* no other): the whole part in the radix, then '.' and the decimals
NumberToString(x, radix) ==
    IF IsNaN(x) THEN Chars("NaN")
    ELSE IF ~IsFinite(x) THEN (IF x[1] < 0 THEN <<"-">> ELSE <<>>) \o Chars("Infinity")
    ELSE LET n == IntAbs(x[1])
             t == ((n % x[2]) * 1000) \div x[2]
         IN  (IF x[1] < 0 THEN <<"-">> ELSE <<>>)
             \o IntegerToString(n \div x[2], radix)
             \o (IF t = 0 THEN <<>> ELSE <<".">> \o Decimals(t))

\* the value of a string of decimal digits; 0 for the empty string
RECURSIVE DigitsValue(_)
DigitsValue(str) ==
    IF str = <<>> THEN 0
    ELSE 10 * DigitsValue(SliceOffLast(str)) + DecDigit(str[Len(str)])

RECURSIVE Pow10(_)
Pow10(k) == IF k = 0 THEN 1 ELSE 10 * Pow10(k - 1)

\* +str for decimal literals: blanks around it are dropped, '' is 0, an
\* optional sign, digits and at most one '.'; anything else is NaN
\* (exponents, hexadecimal literals and 'Infinity' are not modelled)
StringToNumber(str) ==
    LET t == Trim(str)
        signed == t # <<>> /\ t[1] \in {"-", "+"}
        u == IF signed THEN Tail(t) ELSE t
        parts == Split(u, ".")
        whole == parts[1]
        decimals == IF Len(parts) > 1 THEN parts[2] ELSE <<>>
        AllDigits(w) == \A i \in 1..Len(w) : DecDigit(w[i]) >= 0
    IN  IF t = <<>> THEN Zero
        ELSE IF \/ Len(parts) > 2
                \/ ~AllDigits(whole)
                \/ ~AllDigits(decimals)
                \/ (whole = <<>> /\ decimals = <<>>)
             THEN NaN
        ELSE Num((IF signed /\ t[1] = "-" THEN -1 ELSE 1)
                     * (DigitsValue(whole) * Pow10(Len(decimals)) + DigitsValue(decimals)),
                 Pow10(Len(decimals)))

----------------------------------------------------------------------------
(* Color.fromString *)

\* the outcome of a call that throws
RangeError == [error |-> "RangeError"]
ReferenceError == [error |-> "ReferenceError"]
TypeError == [error |-> "TypeError"]

\* the value of one hexadecimal digit, or -1
HexDigit(ch) ==
    CASE ch = "0" -> 0 [] ch = "1" -> 1 [] ch = "2" -> 2 [] ch = "3" -> 3
      [] ch = "4" -> 4 [] ch = "5" -> 5 [] ch = "6" -> 6 [] ch = "7" -> 7
      [] ch = "8" -> 8 [] ch = "9" -> 9 [] ch = "a" -> 10 [] ch = "b" -> 11
      [] ch = "c" -> 12 [] ch = "d" -> 13 [] ch = "e" -> 14 [] ch = "f" -> 15
      [] ch = "A" -> 10 [] ch = "B" -> 11 [] ch = "C" -> 12 [] ch = "D" -> 13
      [] ch = "E" -> 14 [] ch = "F" -> 15
      [] OTHER -> -1

\* a plausible slip: only the first digit of the slice is read
ParseHex2FirstDigit(s) ==
    IF Len(s) = 0 \/ HexDigit(s[1]) < 0 THEN NaN
    ELSE Whole(HexDigit(s[1]))

\* parseInt(s, 16) of a two-character slice: the longest prefix of digits
ParseHex2(s) ==
    IF Len(s) = 0 \/ HexDigit(s[1]) < 0 THEN NaN
    ELSE IF Len(s) = 1 \/ HexDigit(s[2]) < 0 THEN Whole(HexDigit(s[1]))
    ELSE Whole(16 * HexDigit(s[1]) + HexDigit(s[2]))

\* xjs.Number.assertType(x, 'non-negative') does not throw
NonNegative(x) == Le(Zero, x)

\* a plausible slip: every length from '#rgb' to '#rrggbbaa' is let through
ValidHexLengthRange(n) == n \in 4..9

\* [4,5,7,9].includes(str.length)
ValidHexLength(n) == n \in {4, 5, 7, 9}

\* fromString of '#rrggbb' or '#rrggbbaa' (a sequence of 7 or 9 characters)
fromLongHex(str) ==
    LET r == Over(ParseHex2(Slice(str, 1, 3)), Whole(255))
        g == Over(ParseHex2(Slice(str, 3, 5)), Whole(255))
        b == Over(ParseHex2(Slice(str, 5, 7)), Whole(255))
        a == IF Len(str) = 9 THEN Over(ParseHex2(Slice(str, 7, 9)), Whole(255)) ELSE One
    IN  IF NonNegative(r) /\ NonNegative(g) /\ NonNegative(b) /\ NonNegative(a)
        THEN Color(<<r, g, b, a>>)
        ELSE RangeError

\* a plausible slip: a short digit is padded with 0 instead of doubled
expandShortHexPadded(str) ==
    <<"#", str[2], "0", str[3], "0", str[4], "0">>
    \o (IF Len(str) = 5 THEN <<str[5], "0">> ELSE <<>>)

\* the long form `#${r}${r}${g}${g}${b}${b}` (and `${a}${a}`) of '#rgb' or '#rgba'
expandShortHex(str) ==
    <<"#", str[2], str[2], str[3], str[3], str[4], str[4]>>
    \o (IF Len(str) = 5 THEN <<str[5], str[5]>> ELSE <<>>)

\* fromString of a string that starts with '#'
fromHex(str) ==
    IF ~ValidHexLength(Len(str)) THEN RangeError
    ELSE IF Len(str) \in {4, 5} THEN fromLongHex(expandShortHex(str))
    ELSE fromLongHex(str)

\* the named colors: two entries of the table color-names.json
NAMES ==
    [name \in {<<"r", "e", "d">>, <<"w", "h", "i", "t", "e">>} |->
        IF name = <<"r", "e", "d">>
        THEN <<"#", "F", "F", "0", "0", "0", "0">>
        ELSE <<"#", "F", "F", "F", "F", "F", "F">>]

\* keys every object literal inherits from Object.prototype: NAMES[key] is
\* a function, which is truthy and is no string
InheritedKeys == {Chars("constructor"), Chars("toString"), Chars("valueOf")}

\* fromString of a string without '(': NAMES[str] is looked up; a falsy
\* value throws the ReferenceError, a truthy one is given to fromString
\* again, which parses the hex string of the table and, given a function,
\* calls its missing method includes
fromName(str) ==
    IF str \in DOMAIN NAMES THEN fromHex(NAMES[str])
    ELSE IF str \in InheritedKeys THEN TypeError
    ELSE ReferenceError

\* a plausible slip: what follows the '/' is not pushed to the numbers
channelsOfNoSlash(str) ==
    LET cssarg == SliceOffLast(Split(str, "(")[2])
        first == IF Includes(cssarg, ",") THEN Split(cssarg, ",")
                 ELSE SelectSeq(Split(Split(cssarg, "/")[1], " "), LAMBDA w : w # <<>>)
    IN  [i \in 1..Len(first) |-> StringToNumber(first[i])]

\* the numbers of a functional form, e.g. of 'hsv(120 0.5 1 / 0.5)'
channelsOf(str) ==
    LET cssarg == SliceOffLast(Split(str, "(")[2])
        first == IF Includes(cssarg, ",") THEN Split(cssarg, ",")
                 ELSE SelectSeq(Split(Split(cssarg, "/")[1], " "), LAMBDA w : w # <<>>)
        channelstrings == IF Includes(cssarg, "/")
                          THEN Append(first, Split(cssarg, "/")[2])
                          ELSE first
    IN  [i \in 1..Len(channelstrings) |-> StringToNumber(channelstrings[i])]

\* xjs.Object.switch(space, {...})(channels): the space decides the factory,
\* which gets the numbers as its arguments (missing ones take the default of
\* the parameter, extra ones are ignored); a space that is no key of the
\* switch throws
switchSpace(space, channels) ==
    LET ch(i, default) == Arg(channels, i, default)
    IN  IF space \in {Chars("rgb"), Chars("rgba")}
        THEN Color([i \in 1..Len(channels) |-> Over(channels[i], Whole(255))])
        ELSE IF space \in {Chars("hsv"), Chars("hsva")}
        THEN fromHSV(ch(1, Zero), ch(2, Zero), ch(3, Zero), ch(4, One))
        ELSE IF space \in {Chars("hsl"), Chars("hsla")}
        THEN fromHSL(ch(1, Zero), ch(2, Zero), ch(3, Zero), ch(4, One))
        ELSE IF space \in {Chars("hwb"), Chars("hwba")}
        THEN fromHWB(ch(1, Zero), ch(2, Zero), ch(3, Zero), ch(4, One))
        ELSE IF space \in {Chars("cmyk"), Chars("cmyka")}
        THEN fromCMYK(ch(1, Zero), ch(2, Zero), ch(3, Zero), ch(4, Zero), ch(5, One))
        ELSE RangeError

\* fromString of a functional form: the factory of the space before '(' is
\* applied to the numbers; whatever is thrown here leaves as a RangeError
fromFunctional(str) == switchSpace(Split(str, "(")[1], channelsOf(str))

\* Color.fromString(str)
fromString(str) ==
    IF str = <<>> THEN Color(<<>>)
    ELSE IF str[1] = "#" THEN fromHex(str)
    ELSE IF ~Includes(str, "(") THEN fromName(str)
    ELSE fromFunctional(str)

----------------------------------------------------------------------------
(* Methods *)

\* a plausible slip: alpha is not passed on, so the result is opaque
invertDropsAlpha(c) == Color(<<Minus(One, red(c)), Minus(One, green(c)), Minus(One, blue(c))>>)

invert(c) == Color(<<Minus(One, red(c)), Minus(One, green(c)), Minus(One, blue(c)), alpha(c)>>)

rotate(c, a) == fromHSV(Rem(Plus(hsvHue(c), a), Whole(360)), hsvSat(c), hsvVal(c), alpha(c))

complement(c) == rotate(c, Whole(180))

negate(c) == Color(rgb(c) \o <<Minus(One, alpha(c))>>)

fadeIn(c, p, relative) ==
    LET newalpha == Plus(alpha(c), IF relative THEN Times(alpha(c), p) ELSE p)
    IN  Color(rgb(c) \o <<clamp(Zero, newalpha, One)>>)

fadeOut(c, p, relative) == fadeIn(c, Neg(p), relative)

\* c.saturate(p, relative)
saturate(c, p, relative) ==
    LET newsat == Plus(hslSat(c), IF relative THEN Times(hslSat(c), p) ELSE p)
    IN  fromHSL(hslHue(c), clamp(Zero, newsat, One), hslLum(c), alpha(c))

desaturate(c, p, relative) == saturate(c, Neg(p), relative)

\* c.lighten(p, relative)
lighten(c, p, relative) ==
    LET newlum == Plus(hslLum(c), IF relative THEN Times(hslLum(c), p) ELSE p)
    IN  fromHSL(hslHue(c), hslSat(c), clamp(Zero, newlum, One), alpha(c))

\* a plausible slip: the amount is not negated
darkenNotNegated(c, p, relative) == lighten(c, p, relative)

darken(c, p, relative) == lighten(c, Neg(p), relative)

\* a plausible slip: only this color's alpha is tested for transparency
equalsOneSided(c, color, sameObject) ==
    IF sameObject THEN TRUE
    ELSE IF StrictEq(alpha(c), Zero) THEN TRUE
    ELSE /\ StrictEq(red(c), red(color))
         /\ StrictEq(green(c), green(color))
         /\ StrictEq(blue(c), blue(color))
         /\ StrictEq(alpha(c), alpha(color))

\* a plausible slip: transparent colors are compared channel by channel
equalsNoTransparency(c, color, sameObject) ==
    IF sameObject THEN TRUE
    ELSE /\ StrictEq(red(c), red(color))
         /\ StrictEq(green(c), green(color))
         /\ StrictEq(blue(c), blue(color))
         /\ StrictEq(alpha(c), alpha(color))

\* this.equals(color); sameObject says that color is the very object this
equals(c, color, sameObject) ==
    IF sameObject THEN TRUE
    ELSE IF StrictEq(alpha(c), Zero) /\ StrictEq(alpha(color), Zero) THEN TRUE
    ELSE /\ StrictEq(red(c), red(color))
         /\ StrictEq(green(c), green(color))
         /\ StrictEq(blue(c), blue(color))
         /\ StrictEq(alpha(c), alpha(color))

----------------------------------------------------------------------------
(* Color.toString *)

\* a plausible slip: the decimals are cut off
MathTrunc(x) == IF IsFinite(x) THEN Whole(x[1] \div x[2]) ELSE x

\* Math.round(x): the nearest whole number, a half goes up
MathRound(x) == IF IsFinite(x) THEN Whole((2 * x[1] + x[2]) \div (2 * x[2])) ELSE x

\* a plausible slip: no zero is put in front
leadingZeroMissing(n, r) == NumberToString(n, r)

\* leadingZero(n, r): `0${n.toString(r)}`.slice(-2)
leadingZero(n, r) ==
    LET str == <<"0">> \o NumberToString(n, r)
    IN  Slice(str, Len(str) - 2, Len(str))

\* Math.round(x * scale) / scale
RoundTo(x, scale) == Over(MathRound(Times(x, Whole(scale))), Whole(scale))

\* the numbers toString writes for a functional space
returned(c, space) ==
    CASE space = "rgb" ->
           <<MathRound(Times(red(c), Whole(255))),
             MathRound(Times(green(c), Whole(255))),
             MathRound(Times(blue(c), Whole(255)))>>
      [] space = "hsv" ->
           <<RoundTo(hsvHue(c), 10), RoundTo(hsvSat(c), 100), RoundTo(hsvVal(c), 100)>>
      [] space = "hsl" ->
           <<RoundTo(hslHue(c), 10), RoundTo(hslSat(c), 100), RoundTo(hslLum(c), 100)>>
      [] space = "hwb" ->
           <<RoundTo(hwbHue(c), 10), RoundTo(hwbWhite(c), 100), RoundTo(hwbBlack(c), 100)>>
      [] space = "cmyk" ->
           <<RoundTo(cmykCyan(c), 100), RoundTo(cmykMagenta(c), 100),
             RoundTo(cmykYellow(c), 100), RoundTo(cmykBlack(c), 100)>>

\* this.toString(space), space a value of the enum Color.Space
toString(c, space) ==
    IF space = "hex"
    THEN <<"#">>
         \o leadingZero(MathRound(Times(red(c), Whole(255))), 16)
         \o leadingZero(MathRound(Times(green(c), Whole(255))), 16)
         \o leadingZero(MathRound(Times(blue(c), Whole(255))), 16)
         \o (IF Lt(alpha(c), One)
             THEN leadingZero(MathRound(Times(alpha(c), Whole(255))), 16)
             ELSE <<>>)
    ELSE LET numbers == returned(c, space)
         IN  Chars(space) \o <<"(">>
             \o Join([i \in 1..Len(numbers) |-> NumberToString(numbers[i], 10)], " ")
             \o (IF Lt(alpha(c), One)
                 THEN <<" ", "/", " ">> \o NumberToString(RoundTo(alpha(c), 1000), 10)
                 ELSE <<>>)
             \o <<")">>

----------------------------------------------------------------------------
(* Combining colors *)

\* a plausible slip: the complement of the weight is forgotten
averageNoComplement(a, b, w) == Plus(a, Times(b, w))

\* xjs.Math.average(a, b, w): the mean of a and b, weighted w towards b
average(a, b, w) == Plus(Times(a, Minus(One, w)), Times(b, w))

\* a plausible slip: a running pairwise mean, which depends on the order
RECURSIVE reduceRunningMean(_)
reduceRunningMean(arr) ==
    IF Len(arr) = 1 THEN arr[1]
    ELSE Over(Plus(reduceRunningMean(SubSeq(arr, 1, Len(arr) - 1)), arr[Len(arr)]), Whole(2))

\* arr.reduce((a, b) => a + b), arr not empty
RECURSIVE reduceSum(_)
reduceSum(arr) ==
    IF Len(arr) = 1 THEN arr[1]
    ELSE Plus(reduceSum(SubSeq(arr, 1, Len(arr) - 1)), arr[Len(arr)])

\* arr.reduce((a, b) => a * b), arr not empty
RECURSIVE reduceProduct(_)
reduceProduct(arr) ==
    IF Len(arr) = 1 THEN arr[1]
    ELSE Times(reduceProduct(SubSeq(arr, 1, Len(arr) - 1)), arr[Len(arr)])

\* xjs.Math.meanArithmetic(arr)
meanArithmetic(arr) == Over(reduceSum(arr), Whole(Len(arr)))

\* a plausible slip: the alphas are averaged
compoundOpacityAverage(alphas) == meanArithmetic(alphas)

\* Color._compoundOpacity(alphas)
compoundOpacity(alphas) ==
    Minus(One, reduceProduct([i \in 1..Len(alphas) |-> Minus(One, alphas[i])]))

\* The transfer curve ((c + 0.055) / 1.055) ** 2.4 takes no fraction to a
\* fraction.  It is tabulated as <<sRGB value, linear value>> at five points
\* (the curve passes through 0.0031, 0.0509, 0.2140, 0.5225 and 1 there) and
\* read linearly in between; the inverse curve 1.055 * c ** (1 / 2.4) - 0.055
\* is the same table read backwards.  Below the two thresholds both functions
\* are exact.  The table keeps the shape of the curve: both functions
\* increase, and 1 maps to 1.
TransferCurve ==
    << <<Num(1, 25), Num(1, 320)>>,
       <<Num(1, 4), Num(1, 20)>>,
       <<Num(1, 2), Num(21, 100)>>,
       <<Num(3, 4), Num(13, 25)>>,
       <<One, One>> >>

\* the value at x of the curve through the points <<t[i][from], t[i][to]>>
Interpolate(x, from, to, t) ==
    LET last == Len(t) - 1
        i == CHOOSE k \in 1..last :
                 /\ Le(x, t[k + 1][from]) \/ k = last
                 /\ \A j \in 1..(k - 1) : ~Le(x, t[j + 1][from])
        slope == Over(Minus(t[i + 1][to], t[i][to]), Minus(t[i + 1][from], t[i][from]))
    IN  Plus(t[i][to], Times(Minus(x, t[i][from]), slope))

\* Color._sRGB_Linear(c_srgb)
sRGB_Linear(c_srgb) ==
    IF Le(c_srgb, Num(3928, 100000)) THEN Over(c_srgb, Num(1292, 100))
    ELSE Interpolate(c_srgb, 1, 2, TransferCurve)

\* Color._linear_sRGB(c_lin)
linear_sRGB(c_lin) ==
    IF Le(c_lin, Num(304, 100000)) THEN Times(c_lin, Num(1292, 100))
    ELSE Interpolate(c_lin, 2, 1, TransferCurve)

\* this.mix(color, weight)
mix(c, color, weight) ==
    Color(<<average(red(c), red(color), weight),
            average(green(c), green(color), weight),
            average(blue(c), blue(color), weight),
            compoundOpacity(<<alpha(c), alpha(color)>>)>>)

\* this.blur(color, weight)
blur(c, color, weight) ==
    LET compoundChannel(c1, c2) ==
            linear_sRGB(average(sRGB_Linear(c1), sRGB_Linear(c2), weight))
    IN  Color(<<compoundChannel(red(c), red(color)),
                compoundChannel(green(c), green(color)),
                compoundChannel(blue(c), blue(color)),
                compoundOpacity(<<alpha(c), alpha(color)>>)>>)

\* colors.map(f), f one of the channel getters
Channel(colors, name) == [i \in 1..Len(colors) |-> colors[i][name]]

\* Color.mix(colors)
staticMix(colors) ==
    Color(<<meanArithmetic(Channel(colors, "RED")),
            meanArithmetic(Channel(colors, "GREEN")),
            meanArithmetic(Channel(colors, "BLUE")),
            compoundOpacity(Channel(colors, "ALPHA"))>>)

\* Color.blur(colors)
staticBlur(colors) ==
    LET compoundChannel(arr) ==
            linear_sRGB(meanArithmetic([i \in 1..Len(arr) |-> sRGB_Linear(arr[i])]))
    IN  Color(<<compoundChannel(Channel(colors, "RED")),
                compoundChannel(Channel(colors, "GREEN")),
                compoundChannel(Channel(colors, "BLUE")),
                compoundOpacity(Channel(colors, "ALPHA"))>>)

----------------------------------------------------------------------------
(* Contrast *)

\* c.relativeLuminance()
relativeLuminance(c) ==
    Plus(Plus(Times(Num(2126, 10000), sRGB_Linear(red(c))),
              Times(Num(7152, 10000), sRGB_Linear(green(c)))),
         Times(Num(722, 10000), sRGB_Linear(blue(c))))

\* a plausible slip: this color's luminance over the other's, unordered
contrastRatioUnordered(c, color) ==
    Over(Plus(relativeLuminance(c), Num(5, 100)),
         Plus(relativeLuminance(color), Num(5, 100)))

\* c.contrastRatio(color)
contrastRatio(c, color) ==
    LET rl_this == relativeLuminance(c)
        rl_color == relativeLuminance(color)
    IN  Over(Plus(MathMax(rl_this, rl_color), Num(5, 100)),
             Plus(MathMin(rl_this, rl_color), Num(5, 100)))

----------------------------------------------------------------------------
(* The inputs of the calls *)

\* channel arguments: below the range, on it and above it
Inputs == {Num(i, Levels) : i \in -1..(Levels + 1)}

\* channel arguments inside the range [0,1]
Unit == {Num(i, Levels) : i \in 0..Levels}

\* the argument lists of new Color(...): zero to four arguments
ArgLists == UNION {[1..n -> Inputs] : n \in 0..4}

\* hues, in degrees: negative, inside [0,360), sector borders, above 360
Hues == {Whole(h) : h \in {-390, -120, -30, 0, 30, 60, 90, 120, 150, 180,
                           240, 300, 330, 360, 480}}

\* degrees of rotation
Degrees == {Whole(d) : d \in {-480, -180, -120, -45, 0, 60, 120, 180, 360, 540}}

\* amounts of fading
Amounts == {Whole(-1), <<-1, 2>>, Zero, <<1, 2>>, One, Whole(2)}

\* the Color arguments of equals
Others == {Color(argv) : argv \in [1..4 -> Unit]}

HexChars == {"0", "8", "f", "g"}

\* the arguments of fromString: '', '#', and '#' with 2 to 4 characters
Strings ==
    {<<>>, <<"#">>} \cup
    {<<"#">> \o s : s \in UNION {[1..n -> HexChars] : n \in 2..4}}

\* weights of a mix: the ends, the middle, a quarter
Weights == Unit \cup {Num(1, 2 * Levels)}

\* the argument lists (weight) of mix and blur: the weight may be omitted
WeightArgs == {<<>>} \cup {<<w>> : w \in Weights}

\* the colors that are mixed in: transparent, translucent and opaque ones
MixColors ==
    {Color(<<r, Minus(One, r), Times(r, Num(1, 2)), a>>) :
        r \in Unit, a \in {Zero, Num(1, 2), One}}

\* the Color arguments of contrastRatio: those of mix, black and white
ContrastColors ==
    MixColors \cup {Color(<<Zero, Zero, Zero, One>>), Color(<<One, One, One, One>>)}

\* the colors of an array: dark, middle and light, translucent and opaque
ArrayColors ==
    {Color(<<p[1], Minus(One, p[1]), Times(p[1], Num(1, 2)), p[2]>>) :
        p \in {<<Zero, One>>, <<Num(1, Levels), Num(1, 2)>>,
                <<Num(1, Levels), One>>, <<One, Num(1, 2)>>}}

\* the arrays given to Color.mix and Color.blur: two or more colors
ColorArrays == UNION {[1..n -> ArrayColors] : n \in 2..MaxColors}

\* the arguments of fromRGB, in units of 1/255: the channels of the test
\* suite, the ends of the range and one value above it
RGBInputs == {Whole(n) : n \in {0, 28, 64, 128, 228, 256}}

\* the argument lists of fromRGB: opaque, or with alpha 0.5
RGBArgLists ==
    {<<r, g, b>> : r \in RGBInputs, g \in RGBInputs, b \in RGBInputs}
    \cup {<<r, g, b, Num(1, 2)>> : r \in RGBInputs, g \in RGBInputs, b \in RGBInputs}

\* the values of the enum Color.Space
Spaces == {"hex", "rgb", "hsv", "hsl", "hwb", "cmyk"}

\* the argument lists of toString: the space may be omitted
SpaceArgs == {<<>>} \cup {<<space>> : space \in Spaces}

\* strings that start with '#': every length from 1 to MaxHexDigits + 1
HexStrings == {<<"#">> \o str : str \in UNION {[1..n -> {"0", "f"}] : n \in 0..MaxHexDigits}}

\* the keywords of the switch in fromString
KnownSpaces ==
    {Chars(word) : word \in {"rgb", "rgba", "hsv", "hsva", "hsl", "hsla",
                             "hwb", "hwba", "cmyk", "cmyka"}}

\* keywords of functional forms: known ones and two that are no key
Keywords ==
    {Chars(word) : word \in {"rgb", "rgba", "hsv", "hsva", "hsl", "hwb", "cmyk", "cmyka", "lab", "RGB"}}

\* the numbers written in a functional form
ChannelTexts == {<<"0", ".", "5">>, <<"1", "2", "0">>}

\* the lists of numbers of a functional form: none to MaxChannels
ChannelLists == UNION {[1..n -> ChannelTexts] : n \in 0..MaxChannels}

\* a functional form: legacy 'kw(a,b,c)', modern 'kw(a b c)' or 'kw(a b / c)'
Functional(keyword, texts, syntax) ==
    keyword \o <<"(">>
    \o (CASE syntax = "comma" -> Join(texts, ",")
          [] syntax = "blank" -> Join(texts, " ")
          [] syntax = "slash" ->
                Join(SliceOffLast(texts), " ") \o <<" ", "/", " ">> \o texts[Len(texts)])
    \o <<")">>

FunctionalStrings ==
    {Functional(keyword, texts, "comma") : keyword \in Keywords, texts \in ChannelLists}
    \cup {Functional(keyword, texts, "blank") : keyword \in Keywords, texts \in ChannelLists}
    \cup {Functional(keyword, texts, "slash") :
             keyword \in Keywords, texts \in ChannelLists \ {<<>>}}

\* strings without '#' and '(': names of the table, in another case,
\* unknown, and names every object has
NameStrings ==
    {Chars(word) : word \in {"red", "white", "Red", "nocolor", "constructor", "toString", "valueOf"}}

\* the strings the script test.js parses
TestStrings ==
    {Chars("hwb") \o <<"(", "0", ",", "0", ",", "0", ")">>,
     <<"#", "e", "4", "f", "0", "f", "6">>}

StaticOps == {"new", "fromHSV", "fromString"}

\* the calls that return something other than a Color
ValueOps == {"getters", "equals", "toString", "contrastRatio"}

----------------------------------------------------------------------------
(* The calls a client makes: it builds a color with a static call, then    *)
(* calls methods on what the last call returned.                           *)

Init ==
    /\ op = "start"
    /\ args = <<>>
    /\ self = NoColor
    /\ other = NoColor
    /\ result = NoColor
    /\ hist = <<>>

\* the last call returned a Color
ReturnedColor == op \notin ValueOps /\ IsColor(result)

\* a static call returns value: it starts a chain
Static(name, argv, value) ==
    /\ op' = name
    /\ args' = argv
    /\ self' = NoColor
    /\ other' = NoColor
    /\ result' = value
    /\ hist' = <<>>

\* a method may be called on the returned Color while the chain is shorter than limit
CanCall(limit) ==
    /\ ReturnedColor
    /\ IF op \in StaticOps THEN limit > 0 ELSE Len(hist) + 1 < limit

\* a method call on the returned Color returns value
Method(name, argv, color, value) ==
    /\ op' = name
    /\ args' = argv
    /\ self' = result
    /\ other' = color
    /\ result' = value
    /\ hist' = IF op \in StaticOps THEN <<>> ELSE Append(hist, [op |-> op, self |-> self])

New ==
    /\ op = "start"
    /\ \E argv \in ArgLists : Static("new", argv, Color(argv))

FromHSV ==
    /\ op = "start"
    /\ \E h \in Hues, s \in Unit, v \in Unit, a \in Unit :
          Static("fromHSV", <<h, s, v, a>>, fromHSV(h, s, v, a))

FromString ==
    /\ op = "start"
    /\ \E str \in Strings : Static("fromString", str, fromString(str))

ReadGetters ==
    /\ CanCall(1)
    /\ Method("getters", <<>>, NoColor, Getters(result))

Invert ==
    /\ CanCall(1)
    /\ Method("invert", <<>>, NoColor, invert(result))

Rotate ==
    /\ CanCall(1)
    /\ \E d \in Degrees : Method("rotate", <<d>>, NoColor, rotate(result, d))

Complement ==
    /\ CanCall(1)
    /\ Method("complement", <<>>, NoColor, complement(result))

Negate ==
    /\ CanCall(1)
    /\ Method("negate", <<>>, NoColor, negate(result))

FadeIn ==
    /\ CanCall(1)
    /\ \E p \in Amounts, relative \in BOOLEAN :
          Method("fadeIn", <<p, relative>>, NoColor, fadeIn(result, p, relative))

FadeOut ==
    /\ CanCall(1)
    /\ \E p \in Amounts, relative \in BOOLEAN :
          Method("fadeOut", <<p, relative>>, NoColor, fadeOut(result, p, relative))

\* this.equals(color) with color another object
Equals ==
    /\ CanCall(1)
    /\ \E color \in Others : Method("equals", <<FALSE>>, color, equals(result, color, FALSE))

\* this.equals(this)
EqualsSelf ==
    /\ CanCall(1)
    /\ Method("equals", <<TRUE>>, result, equals(result, result, TRUE))

Next ==
    \/ New
    \/ FromHSV
    \/ FromString
    \/ ReadGetters
    \/ Invert
    \/ Rotate
    \/ Complement
    \/ Negate
    \/ FadeIn
    \/ FadeOut
    \/ Equals
    \/ EqualsSelf

Spec == Init /\ [][Next]_vars

----------------------------------------------------------------------------
(* A client that combines colors: it builds a color and mixes or blurs       *)
(* another one into it, or it combines an array of colors.                   *)

NewInRange ==
    /\ op = "start"
    /\ \E argv \in [1..4 -> Unit] : Static("new", argv, Color(argv))

Mix ==
    /\ CanCall(1)
    /\ \E color \in MixColors, argv \in WeightArgs :
          Method("mix", argv, color, mix(result, color, Arg(argv, 1, Num(1, 2))))

Blur ==
    /\ CanCall(1)
    /\ \E color \in MixColors, argv \in WeightArgs :
          Method("blur", argv, color, blur(result, color, Arg(argv, 1, Num(1, 2))))

StaticMix ==
    /\ op = "start"
    /\ \E colors \in ColorArrays : Static("Color.mix", colors, staticMix(colors))

StaticBlur ==
    /\ op = "start"
    /\ \E colors \in ColorArrays : Static("Color.blur", colors, staticBlur(colors))

NextMix ==
    \/ NewInRange
    \/ Mix
    \/ Blur
    \/ StaticMix
    \/ StaticBlur

SpecMix == Init /\ [][NextMix]_vars

----------------------------------------------------------------------------
(* A client that writes colors and reads them back: it builds a color,     *)
(* writes it in a space, parses what was written and writes the parsed     *)
(* color again in the same space; or it parses a string of its own.        *)

\* the last call, as the next call's history keeps it
Call == [op |-> op, args |-> args, self |-> self, result |-> result]

\* a call that follows the last one
Chained(name, argv, receiver, value) ==
    /\ op' = name
    /\ args' = argv
    /\ self' = receiver
    /\ other' = NoColor
    /\ result' = value
    /\ hist' = Append(hist, Call)

FromRGB ==
    /\ op = "start"
    /\ \E argv \in RGBArgLists :
          Static("fromRGB", argv,
                 fromRGB(Arg(argv, 1, Zero), Arg(argv, 2, Zero), Arg(argv, 3, Zero), Arg(argv, 4, One)))

ToStringCall ==
    /\ op \in {"new", "fromRGB"}
    /\ \E argv \in SpaceArgs :
          Chained("toString", argv, result, toString(result, Arg(argv, 1, "hex")))

\* Color.fromString of the string toString returned
ParseBack ==
    /\ op = "toString"
    /\ Len(hist) = 1
    /\ Chained("fromString", result, NoColor, fromString(result))

\* the parsed color, written in the space of the first toString
ToStringAgain ==
    /\ op = "fromString"
    /\ Len(hist) = 2
    /\ IsColor(result)
    /\ Chained("toString", hist[2].args, result, toString(result, Arg(hist[2].args, 1, "hex")))

ParseHex ==
    /\ op = "start"
    /\ \E str \in HexStrings : Static("fromString", str, fromString(str))

ParseFunctional ==
    /\ op = "start"
    /\ \E str \in FunctionalStrings : Static("fromString", str, fromString(str))

ParseName ==
    /\ op = "start"
    /\ \E str \in NameStrings : Static("fromString", str, fromString(str))

ParseTest ==
    /\ op = "start"
    /\ \E str \in TestStrings : Static("fromString", str, fromString(str))

\* the color parsed from a test string, written in a space
ToStringParsed ==
    /\ op = "fromString"
    /\ hist = <<>>
    /\ args \in TestStrings
    /\ IsColor(result)
    /\ \E argv \in SpaceArgs :
          Chained("toString", argv, result, toString(result, Arg(argv, 1, "hex")))

NextString ==
    \/ New
    \/ FromRGB
    \/ ToStringCall
    \/ ParseBack
    \/ ToStringAgain
    \/ ParseHex
    \/ ParseFunctional
    \/ ParseName
    \/ ParseTest
    \/ ToStringParsed

SpecString == Init /\ [][NextString]_vars

----------------------------------------------------------------------------
(* A client that adjusts colors and compares them: it builds a color and    *)
(* changes its saturation or luminosity, or asks for its contrast with      *)
(* another color; or it builds a color from hue, white and black.           *)

FromHWB ==
    /\ op = "start"
    /\ \E h \in Hues, w \in Unit, b \in Unit, a \in Unit :
          Static("fromHWB", <<h, w, b, a>>, fromHWB(h, w, b, a))

Saturate ==
    /\ CanCall(1)
    /\ \E p \in Amounts, relative \in BOOLEAN :
          Method("saturate", <<p, relative>>, NoColor, saturate(result, p, relative))

Desaturate ==
    /\ CanCall(1)
    /\ \E p \in Amounts, relative \in BOOLEAN :
          Method("desaturate", <<p, relative>>, NoColor, desaturate(result, p, relative))

Lighten ==
    /\ CanCall(1)
    /\ \E p \in Amounts, relative \in BOOLEAN :
          Method("lighten", <<p, relative>>, NoColor, lighten(result, p, relative))

Darken ==
    /\ CanCall(1)
    /\ \E p \in Amounts, relative \in BOOLEAN :
          Method("darken", <<p, relative>>, NoColor, darken(result, p, relative))

\* this.contrastRatio(color) with color another object
ContrastRatio ==
    /\ CanCall(1)
    /\ \E color \in ContrastColors :
          Method("contrastRatio", <<FALSE>>, color, contrastRatio(result, color))

\* this.contrastRatio(this)
ContrastRatioSelf ==
    /\ CanCall(1)
    /\ Method("contrastRatio", <<TRUE>>, result, contrastRatio(result, result))

NextAdjust ==
    \/ NewInRange
    \/ FromHWB
    \/ Saturate
    \/ Desaturate
    \/ Lighten
    \/ Darken
    \/ ContrastRatio
    \/ ContrastRatioSelf

SpecAdjust == Init /\ [][NextAdjust]_vars

----------------------------------------------------------------------------
(* A client that chains transformations: c.f().g()..., MaxChain calls long *)

\* degrees of rotation in a chain
ChainDegrees == {Whole(-90), Whole(120)}

ChainInvert ==
    /\ CanCall(MaxChain)
    /\ Method("invert", <<>>, NoColor, invert(result))

ChainRotate ==
    /\ CanCall(MaxChain)
    /\ \E d \in ChainDegrees : Method("rotate", <<d>>, NoColor, rotate(result, d))

ChainComplement ==
    /\ CanCall(MaxChain)
    /\ Method("complement", <<>>, NoColor, complement(result))

ChainNegate ==
    /\ CanCall(MaxChain)
    /\ Method("negate", <<>>, NoColor, negate(result))

NextChain ==
    \/ New
    \/ ChainInvert
    \/ ChainRotate
    \/ ChainComplement
    \/ ChainNegate

SpecChain == Init /\ [][NextChain]_vars

----------------------------------------------------------------------------
(* Reference definitions used to state the properties *)

\* x clamped into [0,1], by cases
Clamp01(x) == IF Lt(x, Zero) THEN Zero ELSE IF Lt(One, x) THEN One ELSE x

InUnit(x) == IsFinite(x) /\ Le(Zero, x) /\ Le(x, One)

InHueRange(x) == IsFinite(x) /\ Le(Zero, x) /\ Lt(x, Whole(360))

\* the mathematical modulo of a finite x by 360: the representative in [0,360)
PosMod360(x) == Num(x[1] % (360 * x[2]), x[2])

TransparentBlack == [RED |-> Zero, GREEN |-> Zero, BLUE |-> Zero, ALPHA |-> Zero,
                     MAX |-> Zero, MIN |-> Zero, CHROMA |-> Zero]

----------------------------------------------------------------------------
(* Properties *)

\* C1: constructing a Color from any four numbers, in range or not, succeeds
\* and its red, green, blue and alpha are the inputs clamped into [0,1].
C1_ConstructorClamps ==
    (op = "new" /\ Len(args) = 4) =>
        /\ IsColor(result)
        /\ red(result) = Clamp01(args[1])
        /\ green(result) = Clamp01(args[2])
        /\ blue(result) = Clamp01(args[3])
        /\ alpha(result) = Clamp01(args[4])

C1_Witness ==
    /\ op = "new"
    /\ Len(args) = 4
    /\ Lt(args[1], Zero) /\ red(result) = Zero
    /\ Lt(One, args[2]) /\ green(result) = One
    /\ Lt(Zero, args[3]) /\ Lt(args[3], One) /\ blue(result) = args[3]
    /\ Lt(One, args[4]) /\ alpha(result) = One

\* C2: the constructor with no argument and fromString('') both return
\* transparent black (red = green = blue = 0, alpha = 0); a constructor call
\* with one to three arguments, so without alpha, returns alpha = 1.
C2_NoColorIsTransparent ==
    /\ (op = "new" /\ Len(args) = 0) => result = TransparentBlack
    /\ (op = "fromString" /\ args = <<>>) => result = TransparentBlack
    /\ (op = "new" /\ Len(args) \in 1..3) => alpha(result) = One

C2_Witness == op = "new" /\ args = <<>> /\ alpha(result) = Zero /\ red(result) = Zero

\* C3: every derived quantity of a Color is in its range: the hue in [0,360),
\* the ten others in [0,1].
C3_DerivedInRange ==
    op = "getters" =>
        /\ InHueRange(result.hsvHue)
        /\ result.hslHue = result.hsvHue
        /\ result.hwbHue = result.hsvHue
        /\ \A f \in {"hsvSat", "hsvVal", "hslSat", "hslLum", "hwbWhite", "hwbBlack",
                     "cmykCyan", "cmykMagenta", "cmykYellow", "cmykBlack"} :
              InUnit(result[f])

\* a hue of the red sector below red: the red formula's remainder wraps it
C3_Witness ==
    /\ op = "getters"
    /\ Lt(Whole(300), result.hsvHue)
    /\ Lt(Zero, result.hslSat) /\ Lt(result.hslSat, One)
    /\ Lt(Zero, result.cmykMagenta)

\* C4: a Color with red = green = blue has hsvHue 0, hsvSat 0 and hslSat 0,
\* and no derived getter divides by zero: each returns a finite number, the
\* cmyk components being 0 when black is 1.
C4_NoDivisionByZero ==
    op = "getters" =>
        /\ (self.RED = self.GREEN /\ self.GREEN = self.BLUE) =>
              result.hsvHue = Zero /\ result.hsvSat = Zero /\ result.hslSat = Zero
        /\ \A f \in DOMAIN result : IsFinite(result[f])
        /\ result.cmykBlack = One =>
              result.cmykCyan = Zero /\ result.cmykMagenta = Zero /\ result.cmykYellow = Zero

\* black: chroma 0, value 0 and cmyk black 1 at once
C4_Witness ==
    /\ op = "getters"
    /\ self.MAX = Zero
    /\ self.CHROMA = Zero
    /\ result.cmykBlack = One
    /\ result.hsvSat = Zero

C6_Original ==
    op = "fromHSV" =>
        /\ Lt(Zero, args[2]) => hsvHue(result) = PosMod360(args[1])
        /\ args[2] = Zero => hsvHue(result) = Zero

\* C6 amended: for every hue and every sat, val in [0,1], fromHSV(hue, sat,
\* val) has hsvHue = hue mod 360 when sat > 0 and val > 0, and hsvHue = 0
\* when sat = 0 or val = 0 (the color is then a gray, or black).
C6_HueRoundTrip ==
    op = "fromHSV" =>
        /\ IsColor(result)
        /\ (Lt(Zero, args[2]) /\ Lt(Zero, args[3])) => hsvHue(result) = PosMod360(args[1])
        /\ (args[2] = Zero \/ args[3] = Zero) => hsvHue(result) = Zero

\* a negative hue on a colorful color
C6_Witness ==
    /\ op = "fromHSV"
    /\ args[1] = Whole(-390)
    /\ Lt(Zero, args[2]) /\ Lt(args[2], One)
    /\ Lt(Zero, args[3]) /\ Lt(args[3], One)
    /\ hsvHue(result) = Whole(330)

\* C7: c.rotate(d) is fromHSV((c.hsvHue + d) mod 360, c.hsvSat, c.hsvVal,
\* c.alpha) with the positive modulo, for positive, negative and large d: it
\* returns a Color, rotate(d) = rotate(d + 360k), alpha and HSV saturation and
\* value are kept, and red rotated by 120 is green.
C7_Rotate ==
    op = "rotate" =>
        LET d == args[1] IN
        /\ IsColor(result)
        /\ result = fromHSV(PosMod360(Plus(hsvHue(self), d)), hsvSat(self), hsvVal(self),
                            alpha(self))
        /\ hsvHue(result) = IF self.CHROMA = Zero THEN Zero
                            ELSE PosMod360(Plus(hsvHue(self), d))
        /\ \A k \in -2..2 : rotate(self, Plus(d, Whole(360 * k))) = result
        /\ alpha(result) = alpha(self)
        /\ hsvSat(result) = hsvSat(self)
        /\ hsvVal(result) = hsvVal(self)
        /\ (self = Color(<<One, Zero, Zero>>) /\ d = Whole(120)) =>
              result = Color(<<Zero, One, Zero>>)

\* a rotation backwards past 0 degrees, by more than a full turn
C7_Witness ==
    /\ op = "rotate"
    /\ args[1] = Whole(-480)
    /\ self = Color(<<One, Zero, Zero>>)
    /\ result = Color(<<Zero, Zero, One>>)

\* C8: c.invert().invert() has the hue, the HSV saturation and value and the
\* alpha of c (and so has c.complement().complement(), the rotation by 180
\* degrees that earlier revisions call invert).
C8_InvertTwice ==
    (op \in {"invert", "complement"} /\ Len(hist) > 0 /\ hist[Len(hist)].op = op) =>
        LET c == hist[Len(hist)].self IN
        /\ hsvHue(result) = hsvHue(c)
        /\ hsvSat(result) = hsvSat(c)
        /\ hsvVal(result) = hsvVal(c)
        /\ alpha(result) = alpha(c)

\* a translucent colorful color inverted twice
C8_Witness ==
    /\ op = "invert"
    /\ Len(hist) > 0
    /\ hist[Len(hist)].op = "invert"
    /\ hsvHue(hist[Len(hist)].self) = Whole(210)
    /\ alpha(hist[Len(hist)].self) = <<1, 2>>
    /\ hsvHue(self) = Whole(30)
    /\ hsvHue(result) = Whole(210)

\* the weight a mix or blur call used
WeightOf(argv) == Arg(argv, 1, Num(1, 2))

\* C11: c1.mix(c2, 0) returns exactly c1 and c1.mix(c2, 1) returns exactly c2,
\* in red, green, blue and alpha.
C11_MixEnds ==
    op = "mix" =>
        /\ WeightOf(args) = Zero =>
               /\ red(result) = red(self) /\ green(result) = green(self)
               /\ blue(result) = blue(self) /\ alpha(result) = alpha(self)
        /\ WeightOf(args) = One =>
               /\ red(result) = red(other) /\ green(result) = green(other)
               /\ blue(result) = blue(other) /\ alpha(result) = alpha(other)

\* C12: c1.mix(c2, w) equals c2.mix(c1, 1 - w) in every channel and in alpha,
\* for every weight w in [0,1].
C12_MixSymmetric ==
    op = "mix" => result = mix(other, self, Minus(One, WeightOf(args)))

C12_Witness ==
    /\ op = "mix"
    /\ WeightOf(args) = Num(1, 2 * Levels)
    /\ red(self) # red(other)
    /\ alpha(self) # alpha(other)
    /\ result = mix(other, self, Minus(One, WeightOf(args)))

\* 1 - (1 - a[1]) * ... * (1 - a[n]), counted from the last alpha down
RECURSIVE Transparency(_, _)
Transparency(a, n) == IF n = 0 THEN One ELSE Times(Minus(One, a[n]), Transparency(a, n - 1))

Reorderings(arr) ==
    {[i \in 1..Len(arr) |-> arr[p[i]]] :
        p \in {q \in [1..Len(arr) -> 1..Len(arr)] : \A i, j \in 1..Len(arr) : q[i] = q[j] => i = j}}

\* C14: Color.mix and Color.blur return the same color for every order of
\* the array they are given.
C14_OrderIrrelevant ==
    /\ op = "Color.mix" => \A colors \in Reorderings(args) : staticMix(colors) = result
    /\ op = "Color.blur" => \A colors \in Reorderings(args) : staticBlur(colors) = result

C14_Witness ==
    /\ op = "Color.blur"
    /\ Len(args) = 3
    /\ red(args[1]) # red(args[2])
    /\ red(args[2]) # red(args[3])
    /\ red(args[1]) # red(args[3])
    /\ alpha(args[1]) # alpha(args[2])
    /\ staticBlur(<<args[3], args[1], args[2]>>) = result

\* the space a toString call wrote in
SpaceOf(argv) == Arg(argv, 1, "hex")

\* |x - y| <= tolerance
Within(x, y, tolerance) == Le(MathAbs(Minus(x, y)), tolerance)

\* two hues at most a tenth of a degree apart on the circle
HueWithin(x, y) ==
    \/ Within(x, y, Num(1, 10))
    \/ Le(Minus(Whole(360), MathAbs(Minus(x, y))), Num(1, 10))

\* C15: for a color c with alpha exactly 0 or 1, writing c in HEX, parsing
\* the string and writing the parsed color in HEX gives the first string again.
C15_HexRoundTrip ==
    (/\ op = "toString"
     /\ Len(hist) = 3
     /\ SpaceOf(args) = "hex"
     /\ alpha(hist[2].self) \in {Zero, One})
        => result = hist[2].result

C15_Witness ==
    /\ op = "toString"
    /\ Len(hist) = 3
    /\ SpaceOf(args) = "hex"
    /\ alpha(hist[2].self) = Zero
    /\ red(hist[2].self) = Num(1, 2)
    /\ blue(hist[2].self) = One
    /\ result = hist[2].result
    /\ Len(result) = 9

\* the parsed color d is the written color c, to the precision of the space
Reproduces(c, d, space) ==
    LET unit == Num(1, 255)
        hundredth == Num(1, 100)
        thousandth == Num(1, 1000)
        rgbWithin == /\ Within(red(c), red(d), unit)
                     /\ Within(green(c), green(d), unit)
                     /\ Within(blue(c), blue(d), unit)
    IN  CASE space = "hex" -> rgbWithin /\ Within(alpha(c), alpha(d), unit)
          [] space = "rgb" -> rgbWithin /\ Within(alpha(c), alpha(d), thousandth)
          [] space = "hsv" ->
                /\ HueWithin(hsvHue(c), hsvHue(d))
                /\ Within(hsvSat(c), hsvSat(d), hundredth)
                /\ Within(hsvVal(c), hsvVal(d), hundredth)
                /\ Within(alpha(c), alpha(d), thousandth)
          [] space = "hsl" ->
                /\ HueWithin(hslHue(c), hslHue(d))
                /\ Within(hslSat(c), hslSat(d), hundredth)
                /\ Within(hslLum(c), hslLum(d), hundredth)
                /\ Within(alpha(c), alpha(d), thousandth)
          [] space = "hwb" ->
                /\ HueWithin(hwbHue(c), hwbHue(d))
                /\ Within(hwbWhite(c), hwbWhite(d), hundredth)
                /\ Within(hwbBlack(c), hwbBlack(d), hundredth)
                /\ Within(alpha(c), alpha(d), thousandth)
          [] space = "cmyk" ->
                /\ Within(cmykCyan(c), cmykCyan(d), hundredth)
                /\ Within(cmykMagenta(c), cmykMagenta(d), hundredth)
                /\ Within(cmykYellow(c), cmykYellow(d), hundredth)
                /\ Within(cmykBlack(c), cmykBlack(d), hundredth)
                /\ Within(alpha(c), alpha(d), thousandth)

\* C16: in every space, parsing what toString wrote succeeds and gives the
\* written color back, to the rounding precision of the space (0.1 degree of
\* hue, 0.01 of the fractional channels, 0.001 of alpha, 1/255 of an RGB or
\* HEX channel).
C16_RoundTrip ==
    (op = "fromString" /\ Len(hist) = 2)
        => /\ IsColor(result)
           /\ Reproduces(hist[2].self, result, SpaceOf(hist[2].args))

\* the characters of a hexadecimal number in lower case
LowerHex == {DigitChars[i] : i \in 1..16}

\* str[i], str[i + 1] are the two digits of Math.round(255 x)
TwoDigitsOf(str, i, x) ==
    LET n == Whole(16 * HexDigit(str[i]) + HexDigit(str[i + 1]))
        scaled == Times(x, Whole(255))
    IN  /\ Le(Minus(n, Num(1, 2)), scaled)
        /\ Lt(scaled, Plus(n, Num(1, 2)))

ChannelsIn(c, space) ==
    CASE space = "rgb" -> <<Times(red(c), Whole(255)), Times(green(c), Whole(255)),
                            Times(blue(c), Whole(255))>>
      [] space = "hsv" -> <<hsvHue(c), hsvSat(c), hsvVal(c)>>
      [] space = "hsl" -> <<hslHue(c), hslSat(c), hslLum(c)>>
      [] space = "hwb" -> <<hwbHue(c), hwbWhite(c), hwbBlack(c)>>
      [] space = "cmyk" -> <<cmykCyan(c), cmykMagenta(c), cmykYellow(c), cmykBlack(c)>>

\* how many steps of a channel make 1: 1 for RGB, 10 for a hue, 100 otherwise
StepsOf(space, i) ==
    IF space = "rgb" THEN 1
    ELSE IF space \in {"hsv", "hsl", "hwb"} /\ i = 1 THEN 10
    ELSE 100

\* written is x rounded to the nearest 1/steps
Rounded(written, x, steps) ==
    /\ Times(written, Whole(steps))[2] = 1
    /\ Le(Minus(written, Num(1, 2 * steps)), x)
    /\ Lt(x, Plus(written, Num(1, 2 * steps)))

\* the numbers between the parentheses of str, before and after the '/'
WrittenChannels(str) ==
    LET words == SelectSeq(Split(Split(SliceOffLast(Split(str, "(")[2]), "/")[1], " "),
                           LAMBDA w : w # <<>>)
    IN  [i \in 1..Len(words) |-> StringToNumber(words[i])]

WrittenAlpha(str) ==
    LET parts == Split(SliceOffLast(Split(str, "(")[2]), "/")
    IN  IF Len(parts) = 2 THEN <<StringToNumber(parts[2])>> ELSE <<>>

IsFunctional(str) == str # <<>> /\ str[1] # "#" /\ Includes(str, "(")

ArityOf(keyword) == IF keyword \in {Chars("cmyk"), Chars("cmyka")} THEN 4 ELSE 3

\* C20: fromString throws the format error when a functional form of a known
\* space has fewer or more numbers than the channels of the space plus an
\* optional alpha; it never fills in defaults.
C20_Arity ==
    (/\ op = "fromString"
     /\ hist = <<>>
     /\ IsFunctional(args)
     /\ Split(args, "(")[1] \in KnownSpaces
     /\ Len(channelsOf(args)) \notin
            {ArityOf(Split(args, "(")[1]), ArityOf(Split(args, "(")[1]) + 1})
        => result = RangeError

\* C21: fromString of a bare identifier (no '#', no '(') that is a key of the
\* names table returns the color of the table's hex value; of any other bare
\* identifier it throws the "not found" ReferenceError, which is not the
\* RangeError of a malformed string.
C21_NamedColors ==
    (/\ op = "fromString"
     /\ hist = <<>>
     /\ args # <<>>
     /\ args[1] # "#"
     /\ ~Includes(args, "("))
        => /\ ReferenceError # RangeError
           /\ args = Chars("red") => result = Color(<<One, Zero, Zero, One>>)
           /\ args = Chars("white") => result = Color(<<One, One, One, One>>)
           /\ args \notin {Chars("red"), Chars("white")} => result = ReferenceError

\* the part of C21 the code keeps: names of the table and identifiers that
\* are no property of an object
C21_OwnNames ==
    (/\ op = "fromString"
     /\ hist = <<>>
     /\ args # <<>>
     /\ args[1] # "#"
     /\ ~Includes(args, "(")
     /\ args \notin InheritedKeys)
        => /\ ReferenceError # RangeError
           /\ args = Chars("red") => result = Color(<<One, Zero, Zero, One>>)
           /\ args = Chars("white") => result = Color(<<One, One, One, One>>)
           /\ args \notin {Chars("red"), Chars("white")} => result = ReferenceError

C21_Witness ==
    /\ op = "fromString"
    /\ args = Chars("constructor")
    /\ result = TypeError

\* C22: for hex digits r, g, b, a, fromString('#rgb') is the color of
\* fromString('#rrggbb') and fromString('#rgba') that of
\* fromString('#rrggbbaa'): every channel is the doubled digit over 255.
C22_ShortHex ==
    (/\ op = "fromString"
     /\ hist = <<>>
     /\ Len(args) \in {4, 5}
     /\ args[1] = "#"
     /\ \A i \in 2..Len(args) : HexDigit(args[i]) >= 0)
        => LET Doubled(i) == Num(17 * HexDigit(args[i]), 255)
               long == <<"#">> \o [i \in 1..(2 * (Len(args) - 1)) |-> args[((i + 1) \div 2) + 1]]
           IN  /\ IsColor(result)
               /\ result = fromString(long)
               /\ red(result) = Doubled(2)
               /\ green(result) = Doubled(3)
               /\ blue(result) = Doubled(4)
               /\ alpha(result) = IF Len(args) = 5 THEN Doubled(5) ELSE One

C22_Witness ==
    /\ op = "fromString"
    /\ args = <<"#", "0", "8", "f", "8">>
    /\ IsColor(result)
    /\ green(result) = Num(8, 15)
    /\ alpha(result) = Num(8, 15)

\* the words of a modern functional form: what stands between '(' and ')',
\* cut at blanks and at the '/'
WordsOf(str) ==
    LET inner == SliceOffLast(Split(str, "(")[2])
        blanked == [i \in 1..Len(inner) |-> IF inner[i] = "/" THEN " " ELSE inner[i]]
    IN  SelectSeq(Split(blanked, " "), LAMBDA w : w # <<>>)

\* the spaces of the functional forms
BaseSpaces == {Chars(word) : word \in {"rgb", "hsv", "hsl", "hwb", "cmyk"}}

\* C23: a modern form 'space(c1 c2 c3)' or 'space(c1 c2 c3 / alpha)' parses
\* to the same Color as the legacy forms 'space(c1,c2,c3,alpha)' and
\* 'spacea(c1,c2,c3,alpha)' with the same numbers.
C23_Grammars ==
    (/\ op = "fromString"
     /\ hist = <<>>
     /\ IsFunctional(args)
     /\ ~Includes(args, ",")
     /\ Split(args, "(")[1] \in BaseSpaces)
        => LET space == Split(args, "(")[1]
               list == <<"(">> \o Join(WordsOf(args), ",") \o <<")">>
           IN  /\ result = fromString(space \o list)
               /\ result = fromString(space \o <<"a">> \o list)

C23_Witness ==
    /\ op = "fromString"
    /\ hist = <<>>
    /\ args = Chars("hsv") \o <<"(">>
              \o Join(<<<<"1", "2", "0">>, <<"0", ".", "5">>, <<"0", ".", "5">>>>, " ")
              \o <<" ", "/", " ", "0", ".", "5", ")">>
    /\ IsColor(result)
    /\ alpha(result) = Num(1, 2)
    /\ green(result) = Num(1, 2)
    /\ red(result) = Num(1, 4)

\* the default toString() was called on what fromString('hwb(0,0,0)') returned
WroteParsedHWB ==
    /\ op = "toString"
    /\ args = <<>>
    /\ Len(hist) = 1
    /\ hist[1].op = "fromString"
    /\ hist[1].args = Chars("hwb") \o <<"(", "0", ",", "0", ",", "0", ")">>

\* C24 as stated: fromString('hwb(0,0,0)').toString() is '#000000'.
C24_Original == WroteParsedHWB => result = <<"#", "0", "0", "0", "0", "0", "0">>

\* C24: fromString('hwb(0,0,0)').toString() is '#ff0000': with white 0 and
\* black 0 the color is the pure hue 0, opaque red.
C24_ParsedHWB == WroteParsedHWB => result = <<"#", "f", "f", "0", "0", "0", "0">>

C24_Witness ==
    /\ WroteParsedHWB
    /\ self = Color(<<One, Zero, Zero, One>>)
    /\ result = <<"#", "f", "f", "0", "0", "0", "0">>

\* C25: fromHWB(hue, white, 1, alpha) divides by nothing that is zero and
\* returns black: red, green and blue are the number 0, alpha is the alpha
\* given.
C25_BlackIsOne ==
    (op = "fromHWB" /\ args[3] = One)
        => /\ IsColor(result)
           /\ \A i \in 1..4 : IsFinite(rgb(result)[i]) /\ InUnit(rgb(result)[i])
           /\ red(result) = Zero
           /\ green(result) = Zero
           /\ blue(result) = Zero
           /\ alpha(result) = args[4]

\* what the code returns for black = 1: red, green and blue are NaN
C25_NotANumber ==
    (op = "fromHWB" /\ args[3] = One)
        => IsNaN(red(result)) /\ IsNaN(green(result)) /\ IsNaN(blue(result))

\* c with another alpha
WithAlpha(c, a) == Color(<<red(c), green(c), blue(c), a>>)

\* C26: a.contrastRatio(b) is b.contrastRatio(a); a.contrastRatio(a) is 1;
\* the ratio is a number from 1 to 21; the alphas of a and b do not change it.
C26_ContrastRatio ==
    op = "contrastRatio" =>
        /\ result = contrastRatio(other, self)
        /\ args = <<TRUE>> => result = One
        /\ IsFinite(result) /\ Le(One, result) /\ Le(result, Whole(21))
        /\ \A a \in Unit, b \in Unit :
              contrastRatio(WithAlpha(self, a), WithAlpha(other, b)) = result

C26_Witness ==
    /\ op = "contrastRatio"
    /\ args = <<FALSE>>
    /\ self = Color(<<One, One, One, Num(1, 2)>>)
    /\ other = Color(<<Zero, Zero, Zero, One>>)
    /\ result = Whole(21)

C26_WitnessSelf ==
    /\ op = "contrastRatio"
    /\ args = <<TRUE>>
    /\ Lt(Zero, relativeLuminance(self))
    /\ result = One

AdjustOps == {"saturate", "desaturate", "lighten", "darken"}

\* C27: c.saturate(0), c.desaturate(0), c.lighten(0) and c.darken(0), with
\* relative false or true, have the red, green, blue and alpha of c.
C27_AdjustByZero ==
    (op \in AdjustOps /\ args[1] = Zero)
        => /\ IsColor(result)
           /\ red(result) = red(self)
           /\ green(result) = green(self)
           /\ blue(result) = blue(self)
           /\ alpha(result) = alpha(self)

C27_Witness ==
    /\ op = "saturate"
    /\ args = <<Zero, TRUE>>
    /\ self = Color(<<One, Num(1, 2), Zero, Num(1, 2)>>)
    /\ result = self

\* C28: in absolute mode c.lighten(1) is white, c.darken(1) is black and
\* c.desaturate(1) is gray (red = green = blue) with the HSL luminosity of c;
\* each has the alpha of c.
C28_AdjustByOne ==
    (op \in {"lighten", "darken", "desaturate"} /\ args = <<One, FALSE>>)
        => /\ IsColor(result)
           /\ alpha(result) = alpha(self)
           /\ op = "lighten" =>
                 red(result) = One /\ green(result) = One /\ blue(result) = One
           /\ op = "darken" =>
                 red(result) = Zero /\ green(result) = Zero /\ blue(result) = Zero
           /\ op = "desaturate" =>
                 /\ red(result) = green(result)
                 /\ green(result) = blue(result)
                 /\ hslLum(result) = hslLum(self)

C28_Witness ==
    /\ op = "darken"
    /\ args = <<One, FALSE>>
    /\ self = Color(<<One, Num(1, 2), Zero, Num(1, 2)>>)
    /\ result = Color(<<Zero, Zero, Zero, Num(1, 2)>>)

\* C29: equals is an equivalence: a.equals(a) is true; a.equals(b) is
\* b.equals(a); and when a.equals(b) and b.equals(c) then a.equals(c), for
\* transparent colors too.
C29_Equivalence ==
    op = "equals" =>
        /\ args = <<TRUE>> => result = TRUE
        /\ args = <<FALSE>> =>
              /\ result = equals(other, self, FALSE)
              /\ equals(self, self, FALSE)
              /\ result =>
                    \A c \in Others : equals(other, c, FALSE) => equals(self, c, FALSE)

C29_Witness ==
    /\ op = "equals"
    /\ args = <<FALSE>>
    /\ alpha(self) = Zero
    /\ red(self) = One
    /\ other = Color(<<Zero, One, Zero, Zero>>)
    /\ result = TRUE

\* C30: when the chroma is not 0, the hue formula of every channel that
\* equals the maximum gives the hue hsvHue returns, so with two channels at
\* the maximum the order in which the channels are looked up does not matter.
C30_TieBreak ==
    (op = "getters" /\ ~StrictEq(self.CHROMA, Zero))
        => \A i \in 1..3 :
              StrictEq(<<self.RED, self.GREEN, self.BLUE>>[i], self.MAX)
                  => hueKeyedBy(self, i) = result.hsvHue

\* red and blue are both the maximum: the hue is 300 by either formula
C30_Witness ==
    /\ op = "getters"
    /\ StrictEq(self.RED, self.MAX)
    /\ StrictEq(self.BLUE, self.MAX)
    /\ Lt(self.GREEN, self.MAX)
    /\ result.hsvHue = Whole(300)

\* C9: c.negate() has alpha 1 - c.alpha and the red, green and blue of c.
C9_Negate ==
    op = "negate" =>
        /\ alpha(result) = Minus(One, alpha(self))
        /\ red(result) = red(self)
        /\ green(result) = green(self)
        /\ blue(result) = blue(self)

\* C10: c.fadeIn(p, relative) has the red, green and blue of c and alpha
\* clamp(c.alpha + p) or, relative, clamp(c.alpha + c.alpha * p); fadeOut(p)
\* is fadeIn(-p); fadeIn(1) is opaque and fadeOut(1) is transparent.
C10_Fade ==
    op \in {"fadeIn", "fadeOut"} =>
        LET p == IF op = "fadeIn" THEN args[1] ELSE Neg(args[1])
            step == IF args[2] THEN Times(alpha(self), p) ELSE p
        IN  /\ alpha(result) = Clamp01(Plus(alpha(self), step))
            /\ red(result) = red(self)
            /\ green(result) = green(self)
            /\ blue(result) = blue(self)
            /\ (op = "fadeIn" /\ args = <<One, FALSE>>) => alpha(result) = One
            /\ (op = "fadeOut" /\ args = <<One, FALSE>>) => alpha(result) = Zero

====
